---- MODULE Spec2Model ----
(***************************************************************************)
(* Model of scripts/bootstrap.py of LImA: the option store (Config), the   *)
(* configure-option resolution (CMakeOptions.get_configure_options), the   *)
(* submodule resolver (GitHelper) and the main() sequence.                 *)
(*                                                                         *)
(* Python strings are sequences of one-character strings, so that          *)
(* str.split, str.startswith, str.lower, str.isdigit and int() are         *)
(* computed as Python computes them.  A Python value is a record tagged    *)
(* with its type (bool, int or str).  A dict is a sequence of key/value    *)
(* records in insertion order (the iteration order of CPython >= 3.7).     *)
(*                                                                         *)
(* Left out: the help arguments (-h, --help), a path option given without  *)
(* a value (--build-prefix alone), a missing config file, platforms other  *)
(* than Linux and Windows (the script exits on import), the Visual Studio  *)
(* generator selection, and the output of 'git submodule' being anything   *)
(* but well-formed lines of text.  The build directory does not exist when *)
(* the run starts.                                                         *)
(***************************************************************************)
EXTENDS Integers, Sequences, FiniteSets, TLC

VARIABLES
    os_type,        \* OS_TYPE, platform.system()
    argv,           \* sys.argv[1:]
    lines,          \* the lines of the config file
    pc,             \* position of the run
    cmd_opts,       \* Config.cmd_opts
    extra_opts,     \* Config.extra_opts
    config_opts,    \* Config.config_opts (None before read_config)
    configure,      \* outcome of CMakeOptions.get_configure_options
    install_required, \* outcome of Config.is_install_required
    cwd,            \* os.getcwd()
    build_exists,   \* os.path.exists(build_prefix)
    queue,          \* submod_list still to be passed to update_submodule
    frames,         \* active update_submodule calls, innermost last
    log,            \* external tool invocations issued so far, in order
    saved_dirs,     \* cur_dir of the ch_dir contexts entered and not left
    failed_at,      \* number of invocations issued when the first one failed
    ended,          \* update_submodule calls that have ended
    exit_msg        \* what sys.exit was called for

vars == <<os_type, argv, lines, pc, cmd_opts, extra_opts, config_opts, configure,
          install_required, cwd, build_exists, queue, frames, log, saved_dirs,
          failed_at, ended, exit_msg>>

----------------------------------------------------------------------------
(* Bounds of the model *)

\* longest command line of the option specification
MaxArgs == 2
\* longest config file
MaxLines == 1
\* longest command line of the run specification
MaxRunArgs == 3

----------------------------------------------------------------------------
(* Python values *)

B(b) == [t |-> "bool", b |-> b, n |-> 0, s |-> <<>>]
I(n) == [t |-> "int", b |-> FALSE, n |-> n, s |-> <<>>]
S(s) == [t |-> "str", b |-> FALSE, n |-> 0, s |-> s]
None == [t |-> "none", b |-> FALSE, n |-> 0, s |-> <<>>]

\* bool(v)
Truthy(v) ==
    CASE v.t = "bool" -> v.b
      [] v.t = "int" -> v.n # 0
      [] v.t = "str" -> v.s # <<>>
      [] OTHER -> FALSE

----------------------------------------------------------------------------
(* Python string methods *)

Drop(s, n) == SubSeq(s, n + 1, Len(s))

\* s.startswith(p)
StartsWith(s, p) == Len(p) <= Len(s) /\ SubSeq(s, 1, Len(p)) = p

LowerChar(c) ==
    CASE c = "A" -> "a" [] c = "B" -> "b" [] c = "C" -> "c" [] c = "D" -> "d"
      [] c = "E" -> "e" [] c = "F" -> "f" [] c = "G" -> "g" [] c = "H" -> "h"
      [] c = "I" -> "i" [] c = "J" -> "j" [] c = "K" -> "k" [] c = "L" -> "l"
      [] c = "M" -> "m" [] c = "N" -> "n" [] c = "O" -> "o" [] c = "P" -> "p"
      [] c = "Q" -> "q" [] c = "R" -> "r" [] c = "S" -> "s" [] c = "T" -> "t"
      [] c = "U" -> "u" [] c = "V" -> "v" [] c = "W" -> "w" [] c = "X" -> "x"
      [] c = "Y" -> "y" [] c = "Z" -> "z" [] OTHER -> c

\* s.lower()
Lower(s) == [i \in 1..Len(s) |-> LowerChar(s[i])]

Digits == {"0", "1", "2", "3", "4", "5", "6", "7", "8", "9"}

DigitVal(c) ==
    CASE c = "0" -> 0 [] c = "1" -> 1 [] c = "2" -> 2 [] c = "3" -> 3
      [] c = "4" -> 4 [] c = "5" -> 5 [] c = "6" -> 6 [] c = "7" -> 7
      [] c = "8" -> 8 [] c = "9" -> 9 [] OTHER -> 0

\* s.isdigit()
IsDigit(s) == s # <<>> /\ \A i \in 1..Len(s) : s[i] \in Digits

\* int(s), for s.isdigit()
RECURSIVE ParseInt(_)
ParseInt(s) ==
    IF s = <<>> THEN 0
    ELSE 10 * ParseInt(SubSeq(s, 1, Len(s) - 1)) + DigitVal(s[Len(s)])

Whitespace == {" ", "\t", "\n"}

\* s.strip()
RECURSIVE Strip(_)
Strip(s) ==
    IF s = <<>> THEN s
    ELSE IF s[1] \in Whitespace THEN Strip(Tail(s))
    ELSE IF s[Len(s)] \in Whitespace THEN Strip(SubSeq(s, 1, Len(s) - 1))
    ELSE s

\* s.find(sep): the first index at which sep occurs in s, 0 if none
Find(s, sep) ==
    LET at == {i \in 1..(Len(s) - Len(sep) + 1) : SubSeq(s, i, i + Len(sep) - 1) = sep}
    IN  IF at = {} THEN 0 ELSE CHOOSE i \in at : \A j \in at : i <= j

\* s.split(sep) for a non-empty sep: the pieces between the non-overlapping
\* occurrences of sep, found from the left
RECURSIVE Split(_, _)
Split(s, sep) ==
    LET i == Find(s, sep)
    IN  IF i = 0 THEN <<s>>
        ELSE <<SubSeq(s, 1, i - 1)>> \o Split(Drop(s, i + Len(sep) - 1), sep)

\* x.replace('_', '-')
from_underscore(x) == [i \in 1..Len(x) |-> IF x[i] = "_" THEN "-" ELSE x[i]]

\* os.path.isabs(p)
IsAbs(p) == p # <<>> /\ p[1] = "/"

\* os.path.join(a, b)
Join(a, b) ==
    IF IsAbs(b) THEN b
    ELSE IF a = <<>> \/ a[Len(a)] = "/" THEN a \o b
    ELSE a \o <<"/">> \o b

----------------------------------------------------------------------------
(* Python dicts, in insertion order *)

DictHas(d, k) == \E i \in 1..Len(d) : d[i].k = k

DictGet(d, k) == d[CHOOSE i \in 1..Len(d) : d[i].k = k].v

\* d[k] = v
DictSet(d, k, v) ==
    IF DictHas(d, k)
    THEN [i \in 1..Len(d) |-> IF d[i].k = k THEN [k |-> k, v |-> v] ELSE d[i]]
    ELSE Append(d, [k |-> k, v |-> v])

----------------------------------------------------------------------------
(* class Config *)

\* the directory the script is started in
start_dir == <<"/", "w">>

k_source_prefix == <<"s", "o", "u", "r", "c", "e", "-", "p", "r", "e", "f", "i", "x">>
k_config_file == <<"c", "o", "n", "f", "i", "g", "-", "f", "i", "l", "e">>
k_build_prefix == <<"b", "u", "i", "l", "d", "-", "p", "r", "e", "f", "i", "x">>
k_build_type == <<"b", "u", "i", "l", "d", "-", "t", "y", "p", "e">>
k_install == <<"i", "n", "s", "t", "a", "l", "l">>
k_install_prefix == <<"i", "n", "s", "t", "a", "l", "l", "-", "p", "r", "e", "f", "i", "x">>
k_git == <<"g", "i", "t">>

defaults ==
    << [k |-> k_git, v |-> B(FALSE)],
       [k |-> <<"f", "i", "n", "d", "-", "r", "o", "o", "t", "-", "p", "a", "t", "h">>, v |-> S(<<>>)],
       [k |-> k_source_prefix, v |-> S(<<>>)],
       [k |-> k_config_file, v |-> S(<<"s", "c", "r", "i", "p", "t", "s", "/", "c", "o", "n", "f", "i", "g", ".", "t", "x", "t">>)],
       [k |-> k_build_prefix, v |-> S(<<"b", "u", "i", "l", "d">>)],
       [k |-> k_build_type,
        v |-> IF os_type = "Linux" THEN S(<<"R", "e", "l", "W", "i", "t", "h", "D", "e", "b", "I", "n", "f", "o">>) ELSE S(<<"R", "e", "l", "e", "a", "s", "e">>)],
       [k |-> k_install, v |-> B(FALSE)],
       [k |-> k_install_prefix, v |-> S(<<>>)],
       [k |-> <<"i", "n", "s", "t", "a", "l", "l", "-", "p", "y", "t", "h", "o", "n", "-", "p", "r", "e", "f", "i", "x">>, v |-> S(<<>>)] >>

\* Config.get(x) on the command-line options co
get(co, x) == IF DictHas(co, x) THEN DictGet(co, x) ELSE DictGet(defaults, x)

\* val_map.get(val.lower(), val)
val_map(val) ==
    IF Lower(val) = <<"y", "e", "s">> THEN B(TRUE)
    ELSE IF Lower(val) = <<"n", "o">> THEN B(FALSE)
    ELSE S(val)

\* the loop over the defaults for one argument, from the i-th default on:
\* the option and value to set, or no hit (the loop's else branch)
RECURSIVE decode_opt(_, _)
decode_opt(arg, i) ==
    IF i > Len(defaults) THEN [hit |-> FALSE, k |-> <<>>, v |-> None]
    ELSE
        LET opt == defaults[i].k
            arg1 == IF arg = <<"-", "-", "n", "o", "-">> \o opt THEN <<"-", "-">> \o opt \o <<"=", "n", "o">> ELSE arg
            prefix == <<"-", "-">> \o opt
        IN  IF arg1 = prefix THEN [hit |-> TRUE, k |-> opt, v |-> B(TRUE)]
            ELSE IF StartsWith(arg1, prefix \o <<"=">>)
            THEN [hit |-> TRUE, k |-> opt, v |-> val_map(Drop(arg1, Len(prefix) + 1))]
            ELSE decode_opt(arg1, i + 1)

RECURSIVE decode_loop(_, _, _, _)
decode_loop(args, i, co, ex) ==
    IF i > Len(args) THEN [cmd_opts |-> co, extra_opts |-> ex]
    ELSE
        LET r == decode_opt(args[i], 1)
        IN  IF r.hit THEN decode_loop(args, i + 1, DictSet(co, r.k, r.v), ex)
            ELSE decode_loop(args, i + 1, co, Append(ex, args[i]))

\* the path options made absolute
abs_opt(co, opt) ==
    LET p == get(co, opt)
    IN  IF Truthy(p) /\ ~IsAbs(p.s) THEN DictSet(co, opt, S(Join(start_dir, p.s))) ELSE co

\* Config.decode_args: the command-line options and the extra tokens
decode_args(args) ==
    LET r == decode_loop(args, 1, <<>>, <<>>)
        c1 == IF ~Truthy(get(r.cmd_opts, k_source_prefix))
              THEN DictSet(r.cmd_opts, k_source_prefix, S(start_dir))
              ELSE r.cmd_opts
        c2 == abs_opt(c1, k_config_file)
        c3 == abs_opt(c2, k_build_prefix)
    IN  [cmd_opts |-> c3, extra_opts |-> r.extra_opts]

\* the rewriting of one extra token by the two (oprefix, sdir) pairs
rewrite_extra(arg) ==
    LET a1 == IF StartsWith(arg, <<"c", "a", "m", "e", "r", "a", "/">>)
              THEN <<"l", "i", "m", "a", "c", "a", "m", "e", "r", "a", "-">> \o Drop(arg, Len(<<"c", "a", "m", "e", "r", "a", "/">>)) ELSE arg
    IN  IF StartsWith(a1, <<"t", "h", "i", "r", "d", "-", "p", "a", "r", "t", "y", "/">>)
        THEN <<"l", "i", "m", "a", "-", "e", "n", "a", "b", "l", "e", "-">> \o Drop(a1, Len(<<"t", "h", "i", "r", "d", "-", "p", "a", "r", "t", "y", "/">>)) ELSE a1

RECURSIVE add_extras(_, _, _)
add_extras(opts, ex, i) ==
    IF i > Len(ex) THEN opts
    ELSE add_extras(DictSet(opts, rewrite_extra(ex[i]), B(TRUE)), ex, i + 1)

\* Config.get_cmd_options(check_defaults=False)
get_cmd_options(co, ex) == add_extras(co, ex, 1)

\* read_line that passes over a line without '=' instead of raising
read_line_lenient(raw) ==
    LET line == Strip(raw)
        t == Split(line, <<"=">>)
    IN  IF line = <<>> \/ line[1] = "#" \/ Len(t) # 2
        THEN [kind |-> "skip", k |-> <<>>, v |-> None]
        ELSE [kind |-> "entry", k |-> Lower(from_underscore(t[1])),
              v |-> IF IsDigit(t[2]) THEN I(ParseInt(t[2])) ELSE S(t[2])]

\* one line of the config file: skipped, an entry, or ValueError
read_line(raw) ==
    LET line == Strip(raw)
        t == Split(line, <<"=">>)
    IN  IF line = <<>> \/ line[1] = "#" THEN [kind |-> "skip", k |-> <<>>, v |-> None]
        ELSE IF Len(t) # 2 THEN [kind |-> "ValueError", k |-> <<>>, v |-> None]
        ELSE [kind |-> "entry", k |-> Lower(from_underscore(t[1])),
              v |-> IF IsDigit(t[2]) THEN I(ParseInt(t[2])) ELSE S(t[2])]

RECURSIVE read_loop(_, _, _)
read_loop(ls, i, acc) ==
    IF i > Len(ls) THEN [exc |-> "", opts |-> acc]
    ELSE
        LET r == read_line(ls[i])
        IN  IF r.kind = "ValueError" THEN [exc |-> "ValueError", opts |-> acc]
            ELSE IF r.kind = "skip" THEN read_loop(ls, i + 1, acc)
            ELSE read_loop(ls, i + 1, Append(acc, [k |-> r.k, v |-> r.v]))

\* Config.read_config
read_config(ls) == read_loop(ls, 1, <<>>)

\* is_install_required that lets a non-empty install-prefix win over an
\* 'install' given on the command line
is_install_required_or(co, ex) ==
    LET opts == get_cmd_options(co, ex)
        install_prefix == IF DictHas(opts, k_install_prefix)
                          THEN DictGet(opts, k_install_prefix) ELSE S(<<>>)
    IN  B((DictHas(opts, k_install) /\ Truthy(DictGet(opts, k_install)))
          \/ install_prefix # S(<<>>))

\* Config.is_install_required: cmd_opts.get('install', install_prefix != '')
is_install_required(co, ex) ==
    LET opts == get_cmd_options(co, ex)
        install_prefix == IF DictHas(opts, k_install_prefix)
                          THEN DictGet(opts, k_install_prefix) ELSE S(<<>>)
    IN  IF DictHas(opts, k_install) THEN DictGet(opts, k_install)
        ELSE B(install_prefix # S(<<>>))

----------------------------------------------------------------------------
(* class CMakeOptions *)

cmd_2_cmake_map ==
    << [cmd_key |-> k_build_type, cmake_key |-> <<"c", "m", "a", "k", "e", "-", "b", "u", "i", "l", "d", "-", "t", "y", "p", "e">>],
       [cmd_key |-> k_install_prefix, cmake_key |-> <<"c", "m", "a", "k", "e", "-", "i", "n", "s", "t", "a", "l", "l", "-", "p", "r", "e", "f", "i", "x">>],
       [cmd_key |-> <<"i", "n", "s", "t", "a", "l", "l", "-", "p", "y", "t", "h", "o", "n", "-", "p", "r", "e", "f", "i", "x">>, cmake_key |-> <<"p", "y", "t", "h", "o", "n", "-", "s", "i", "t", "e", "-", "p", "a", "c", "k", "a", "g", "e", "s", "-", "d", "i", "r">>],
       [cmd_key |-> <<"f", "i", "n", "d", "-", "r", "o", "o", "t", "-", "p", "a", "t", "h">>, cmake_key |-> <<"c", "m", "a", "k", "e", "-", "f", "i", "n", "d", "-", "r", "o", "o", "t", "-", "p", "a", "t", "h">>] >>

\* is_active that compares the value with 'no' as written
is_active_cased(val) ==
    IF val.t \in {"bool", "int"} THEN Truthy(val)
    ELSE val.s # <<>> /\ val.s \notin {<<"0">>, <<"n", "o">>}

\* is_active of get_configure_options, as a truth value
is_active(val) ==
    IF val.t \in {"bool", "int"} THEN Truthy(val)
    ELSE val.s # <<>> /\ Lower(val.s) \notin {<<"0">>, <<"n", "o">>}

\* the loop over cmd_opts.items() for the config entry (opt, val), from the
\* i-th item on: the value the entry is left with, where it comes from (src,
\* and the index of the item that gave it), or the exception raised
RECURSIVE resolve_entry(_, _, _, _)
resolve_entry(opt, val, cmd, i) ==
    IF i > Len(cmd) THEN [exc |-> "", val |-> val, src |-> "config", by |-> 0]
    ELSE
        LET cmd_opt == cmd[i].k
            cmd_val == cmd[i].v
            t == Split(opt, cmd_opt)
        IN  IF cmd_opt = opt THEN [exc |-> "", val |-> cmd_val, src |-> "cmd", by |-> i]
            ELSE IF cmd_opt = <<>>
            THEN [exc |-> "ValueError", val |-> val, src |-> "config", by |-> i]
            ELSE IF Len(t) # 2 THEN resolve_entry(opt, val, cmd, i + 1)
            ELSE IF t[1] = <<>>
            THEN [exc |-> "IndexError", val |-> val, src |-> "config", by |-> i]
            ELSE IF t[1][Len(t[1])] = "-" /\ t[2] = <<>>
            THEN [exc |-> "", val |-> cmd_val, src |-> "cmd", by |-> i]
            ELSE resolve_entry(opt, val, cmd, i + 1)

\* the loop over config_opts: the options appended to cmake_opts, and for
\* every entry gone through what resolve_entry gave for it
RECURSIVE config_pass(_, _, _, _, _)
config_pass(cfg, cmd, i, acc, res) ==
    IF i > Len(cfg) THEN [exc |-> "", cmake_opts |-> acc, resolved |-> res]
    ELSE
        LET r == resolve_entry(cfg[i].k, cfg[i].v, cmd, 1)
            e == [opt |-> cfg[i].k, cfg_val |-> cfg[i].v, val |-> r.val,
                  src |-> r.src, by |-> r.by]
        IN  IF r.exc # "" THEN [exc |-> r.exc, cmake_opts |-> acc, resolved |-> res]
            ELSE config_pass(cfg, cmd, i + 1,
                             IF is_active(r.val)
                             THEN Append(acc, [k |-> cfg[i].k, v |-> r.val]) ELSE acc,
                             Append(res, e))

\* the loop over cmd_2_cmake_map
RECURSIVE map_pass(_, _, _)
map_pass(co, acc, i) ==
    IF i > Len(cmd_2_cmake_map) THEN acc
    ELSE
        LET val == get(co, cmd_2_cmake_map[i].cmd_key)
            cmake_key == cmd_2_cmake_map[i].cmake_key
        IN  map_pass(co,
                     IF is_active(val) /\ ~DictHas(acc, cmake_key)
                     THEN Append(acc, [k |-> cmake_key, v |-> val]) ELSE acc,
                     i + 1)

UpperChar(c) ==
    CASE c = "a" -> "A" [] c = "b" -> "B" [] c = "c" -> "C" [] c = "d" -> "D"
      [] c = "e" -> "E" [] c = "f" -> "F" [] c = "g" -> "G" [] c = "h" -> "H"
      [] c = "i" -> "I" [] c = "j" -> "J" [] c = "k" -> "K" [] c = "l" -> "L"
      [] c = "m" -> "M" [] c = "n" -> "N" [] c = "o" -> "O" [] c = "p" -> "P"
      [] c = "q" -> "Q" [] c = "r" -> "R" [] c = "s" -> "S" [] c = "t" -> "T"
      [] c = "u" -> "U" [] c = "v" -> "V" [] c = "w" -> "W" [] c = "x" -> "X"
      [] c = "y" -> "Y" [] c = "z" -> "Z" [] OTHER -> c

\* Config.to_underscore(o).upper()
to_underscore_upper(o) == [i \in 1..Len(o) |-> IF o[i] = "-" THEN "_" ELSE UpperChar(o[i])]

DigitChar(d) ==
    CASE d = 0 -> "0" [] d = 1 -> "1" [] d = 2 -> "2" [] d = 3 -> "3" [] d = 4 -> "4"
      [] d = 5 -> "5" [] d = 6 -> "6" [] d = 7 -> "7" [] d = 8 -> "8" [] OTHER -> "9"

\* str(n) for n >= 0
RECURSIVE IntToStr(_)
IntToStr(n) == IF n < 10 THEN <<DigitChar(n)>> ELSE IntToStr(n \div 10) \o <<DigitChar(n % 10)>>

\* quoted(x) of cmd_option
quoted(x) ==
    LET s == CASE x.t = "bool" -> IntToStr(IF x.b THEN 1 ELSE 0)
               [] x.t = "int" -> IntToStr(x.n)
               [] OTHER -> x.s
    IN  IF (\E i \in 1..Len(s) : s[i] = " ") /\ ~StartsWith(s, <<"\"">>)
        THEN <<"\"">> \o s \o <<"\"">> ELSE s

\* CMakeOptions.cmd_option
cmd_option(o, v) == <<"-", "D">> \o to_underscore_upper(o) \o <<"=">> \o quoted(v)

\* the generator of the platform (the Visual Studio version is not modelled)
cmake_gen == IF os_type = "Linux" THEN <<"U", "n", "i", "x", " ", "M", "a", "k", "e", "f", "i", "l", "e", "s">> ELSE <<"V", "i", "s", "u", "a", "l", " ", "S", "t", "u", "d", "i", "o">>

\* CMakeOptions.get_configure_options on the command-line options co, the
\* extra tokens ex and the config entries cfg: the words of the cmake command
\* line, or the exception raised
get_configure_options(co, ex, cfg) ==
    LET cmd == get_cmd_options(co, ex)
        p == config_pass(cfg, cmd, 1, <<>>, <<>>)
        cmake_opts == IF p.exc = "" THEN map_pass(co, p.cmake_opts, 1) ELSE p.cmake_opts
    IN  [done |-> TRUE, exc |-> p.exc, cmake_opts |-> cmake_opts, resolved |-> p.resolved,
         cmd_line |-> IF p.exc # "" THEN <<>>
                      ELSE <<<<"c", "m", "a", "k", "e">>, get(co, k_source_prefix).s,
                             <<"-", "G">> \o <<"\"">> \o cmake_gen \o <<"\"">> >>
                           \o [i \in 1..Len(cmake_opts) |->
                                  cmd_option(cmake_opts[i].k, cmake_opts[i].v)]]

NotConfigured ==
    [done |-> FALSE, exc |-> "", cmake_opts |-> <<>>, resolved |-> <<>>, cmd_line |-> <<>>]

----------------------------------------------------------------------------
(* The option specification: a Config is built from a command line, then   *)
(* get_configure_options and is_install_required are called on it.         *)

SeqsUpTo(P, n) == UNION {[1..m -> P] : m \in 0..n}

\* command-line arguments of the option specification
ArgPool ==
    { <<"-", "-", "i", "n", "s", "t", "a", "l", "l">>, <<"-", "-", "n", "o", "-", "i", "n", "s", "t", "a", "l", "l">>, <<"-", "-", "i", "n", "s", "t", "a", "l", "l", "-", "p", "r", "e", "f", "i", "x", "=", "/", "o">>, <<"-", "-", "i", "n", "s", "t", "a", "l", "l", "-", "p", "r", "e", "f", "i", "x", "=">>,
      <<"x">>, <<"x", "-", "i", "n", "s", "t", "a", "l", "l">>, <<"c", "a", "m", "e", "r", "a", "/", "x">>, <<"i", "n", "s", "t", "a", "l", "l">> }

\* config-file lines of the option specification
LinePool ==
    { <<"X", "_", "I", "N", "S", "T", "A", "L", "L", "=", "1">>, <<"X", "_", "I", "N", "S", "T", "A", "L", "L", "=", "N", "o">>, <<"X", "_", "X", "=", "0", "0">>, <<"X", "_", "X", "=", "N", "O">>, <<"X", "_", "X", "=">>,
      <<"I", "N", "S", "T", "A", "L", "L", "_", "P", "R", "E", "F", "I", "X", "=", "/", "o">>, <<"C", "M", "A", "K", "E", "_", "I", "N", "S", "T", "A", "L", "L", "_", "P", "R", "E", "F", "I", "X", "=", "n", "o">>, <<"C", "M", "A", "K", "E", "_", "B", "U", "I", "L", "D", "_", "T", "Y", "P", "E", "=", "n", "o">>,
      <<"L", "I", "M", "A", "C", "A", "M", "E", "R", "A", "_", "X", "=", "0", "7">>, <<"X", "_", "X", "=", " ", "0">>, <<"Y", "=", "a", " ", "b">>, <<"#", " ", "c">>, <<" ">>, <<"b", "a", "d">> }

\* sys.exit has not been called
NoExit == [kind |-> "", submod |-> <<>>, exc |-> ""]

RunVarsInit ==
    /\ cwd = start_dir
    /\ build_exists = FALSE
    /\ queue = <<>>
    /\ frames = <<>>
    /\ log = <<>>
    /\ saved_dirs = <<>>
    /\ failed_at = 0
    /\ ended = <<>>
    /\ exit_msg = NoExit

InitOpts ==
    /\ os_type = "Linux"
    /\ argv \in SeqsUpTo(ArgPool, MaxArgs)
    /\ lines \in SeqsUpTo(LinePool, MaxLines)
    /\ pc = "start"
    /\ cmd_opts = <<>>
    /\ extra_opts = <<>>
    /\ config_opts = <<>>
    /\ configure = NotConfigured
    /\ install_required = None
    /\ RunVarsInit

\* Config.__init__(argv)
NewConfig ==
    /\ pc = "start"
    /\ LET r == decode_args(argv)
       IN  /\ cmd_opts' = r.cmd_opts
           /\ extra_opts' = r.extra_opts
    /\ pc' = "decoded"
    /\ UNCHANGED <<os_type, argv, lines, config_opts, configure, install_required,
                   cwd, build_exists, queue, frames, log, saved_dirs, failed_at, ended,
                   exit_msg>>

\* CMakeOptions(cfg).get_configure_options(), reading the config file
\* (get_config_options) on the way
GetConfigureOptions ==
    /\ pc = "decoded"
    /\ LET c == read_config(lines)
       IN  /\ config_opts' = c.opts
           /\ configure' = IF c.exc # ""
                           THEN [NotConfigured EXCEPT !.done = TRUE, !.exc = c.exc]
                           ELSE get_configure_options(cmd_opts, extra_opts, c.opts)
    /\ pc' = "configured"
    /\ UNCHANGED <<os_type, argv, lines, cmd_opts, extra_opts, install_required,
                   cwd, build_exists, queue, frames, log, saved_dirs, failed_at, ended,
                   exit_msg>>

\* cfg.is_install_required()
IsInstallRequired ==
    /\ pc = "configured"
    /\ install_required' = is_install_required(cmd_opts, extra_opts)
    /\ pc' = "asked"
    /\ UNCHANGED <<os_type, argv, lines, cmd_opts, extra_opts, config_opts, configure,
                   cwd, build_exists, queue, frames, log, saved_dirs, failed_at, ended,
                   exit_msg>>

NextOpts == NewConfig \/ GetConfigureOptions \/ IsInstallRequired

SpecOpts == InitOpts /\ [][NextOpts]_vars

----------------------------------------------------------------------------
(* class GitHelper *)

not_submodules ==
    { <<"g", "i", "t">>, <<"p", "y", "t", "h", "o", "n">>, <<"t", "e", "s", "t", "s">>, <<"t", "e", "s", "t">>, <<"c", "b", "f">>, <<"l", "z", "4">>, <<"f", "i", "t", "s">>, <<"g", "z">>,
      <<"t", "i", "f", "f">>, <<"h", "d", "f", "5">> }

submodule_map ==
    << [k |-> <<"e", "s", "p", "i", "a">>, v |-> <<"c", "a", "m", "e", "r", "a", "/", "c", "o", "m", "m", "o", "n", "/", "e", "s", "p", "i", "a">>],
       [k |-> <<"p", "y", "t", "a", "n", "g", "o", "-", "s", "e", "r", "v", "e", "r">>, v |-> <<"a", "p", "p", "l", "i", "c", "a", "t", "i", "o", "n", "s", "/", "t", "a", "n", "g", "o", "/", "p", "y", "t", "h", "o", "n">>],
       [k |-> <<"s", "p", "s", "-", "i", "m", "a", "g", "e">>, v |-> <<"S", "p", "s">>] >>

basic_submods == << <<"P", "r", "o", "c", "e", "s", "s", "l", "i", "b">> >>

\* the directories of the source tree, relative to the source root
source_tree ==
    { <<"t", "h", "i", "r", "d", "-", "p", "a", "r", "t", "y">>, <<"t", "h", "i", "r", "d", "-", "p", "a", "r", "t", "y", "/", "P", "r", "o", "c", "e", "s", "s", "l", "i", "b">>, <<"c", "a", "m", "e", "r", "a">>, <<"c", "a", "m", "e", "r", "a", "/", "c", "o", "m", "m", "o", "n">>,
      <<"c", "a", "m", "e", "r", "a", "/", "c", "o", "m", "m", "o", "n", "/", "e", "s", "p", "i", "a">>, <<"t", "e", "s", "t", "s">> }

\* os.path.isdir(p) with the source root as working directory
isdir(p) == p \in source_tree

\* what 'git submodule' lists in the directory dir: the second word of
\* every line of its output
nested_submodules(dir) ==
    IF dir = start_dir \o <<"/", "c", "a", "m", "e", "r", "a", "/", "c", "o", "m", "m", "o", "n", "/", "e", "s", "p", "i", "a">> THEN << <<"s", "d", "k">> >> ELSE <<>>

\* the requested names with the basic submodules appended
RECURSIVE add_basic(_, _)
add_basic(submodules, i) ==
    IF i > Len(basic_submods) THEN submodules
    ELSE add_basic(IF \E j \in 1..Len(submodules) : submodules[j] = basic_submods[i]
                   THEN submodules ELSE Append(submodules, basic_submods[i]),
                   i + 1)

\* the path kept for one name: the renamed name under the first of
\* 'third-party' and 'camera' that holds it, else the renamed name itself
submod_path(submod) ==
    LET s == IF DictHas(submodule_map, submod) THEN DictGet(submodule_map, submod)
             ELSE submod
    IN  IF isdir(Join(<<"t", "h", "i", "r", "d", "-", "p", "a", "r", "t", "y">>, s)) THEN Join(<<"t", "h", "i", "r", "d", "-", "p", "a", "r", "t", "y">>, s)
        ELSE IF isdir(Join(<<"c", "a", "m", "e", "r", "a">>, s)) THEN Join(<<"c", "a", "m", "e", "r", "a">>, s)
        ELSE s

\* the first loop of check_submodules without the os.path.isdir test
RECURSIVE resolve_loop_unchecked(_, _, _)
resolve_loop_unchecked(submodules, i, acc) ==
    IF i > Len(submodules) THEN acc
    ELSE IF submodules[i] \in not_submodules
    THEN resolve_loop_unchecked(submodules, i + 1, acc)
    ELSE resolve_loop_unchecked(submodules, i + 1,
                                Append(acc, submod_path(submodules[i])))

\* the first loop of check_submodules: submod_list
RECURSIVE resolve_loop(_, _, _)
resolve_loop(submodules, i, acc) ==
    IF i > Len(submodules) THEN acc
    ELSE IF submodules[i] \in not_submodules THEN resolve_loop(submodules, i + 1, acc)
    ELSE resolve_loop(submodules, i + 1,
                      IF isdir(submod_path(submodules[i]))
                      THEN Append(acc, submod_path(submodules[i])) ELSE acc)

submod_list(opts) == resolve_loop(add_basic(opts, 1), 1, <<>>)

----------------------------------------------------------------------------
(* The run specification: main()                                           *)

inputs == <<os_type, argv, lines>>
opt_vars == <<cmd_opts, extra_opts, config_opts, configure, install_required>>
git_vars == <<queue, frames, saved_dirs, ended>>

\* command-line arguments of the run specification
RunArgPool ==
    { <<"-", "-", "g", "i", "t">>, <<"-", "-", "i", "n", "s", "t", "a", "l", "l">>, <<"e", "s", "p", "i", "a">>, <<"c", "a", "m", "e", "r", "a", "/", "c", "o", "m", "m", "o", "n", "/", "e", "s", "p", "i", "a">>, <<"n", "o", "d", "i", "r">>, <<"t", "e", "s", "t", "s">> }

\* config files of the run specification
RunFiles == { << <<"X", "=", "1">> >>, << <<"X", "=", "1">>, <<"b", "a", "d">> >> }

InitRun ==
    /\ os_type \in {"Linux", "Windows"}
    /\ argv \in SeqsUpTo(RunArgPool, MaxRunArgs)
    /\ lines \in RunFiles
    /\ pc = "start"
    /\ cmd_opts = <<>>
    /\ extra_opts = <<>>
    /\ config_opts = <<>>
    /\ configure = NotConfigured
    /\ install_required = None
    /\ RunVarsInit

\* exec_cmd(cmd) issued in the working directory
Invoke(cmd, path) == log' = Append(log, [cmd |-> cmd, path |-> path, dir |-> cwd])

\* the update_submodule calls on the stack end as they are: an exception
\* leaves the ch_dir contexts without going back
Ended(fs, ok, dir) ==
    [i \in 1..Len(fs) |->
        [submod |-> fs[Len(fs) + 1 - i].submod, ok |-> ok,
         before |-> fs[Len(fs) + 1 - i].before, after |-> dir]]

\* except Exception in update_submodule: sys.exit('Problem with submodule')
\* for the innermost call; SystemExit is caught nowhere
SubmoduleExit(dir) ==
    /\ pc' = "exit"
    /\ exit_msg' = [kind |-> "submodule", submod |-> frames[Len(frames)].submod,
                    exc |-> "Exception"]
    /\ ended' = ended \o Ended(frames, FALSE, dir)
    /\ frames' = <<>>
    /\ saved_dirs' = <<>>
    /\ failed_at' = IF failed_at = 0 THEN Len(log) + 1 ELSE failed_at

Frame(submod) == [submod |-> submod, phase |-> "init", before |-> cwd, children |-> <<>>]

SetPhase(ph) == frames' = [frames EXCEPT ![Len(frames)].phase = ph]

\* main: git = GitHelper(cfg); git.check_submodules() up to the update loop
CheckSubmodules ==
    /\ pc = "decoded"
    /\ os_type = "Linux" /\ Truthy(get(cmd_opts, k_git))
    /\ queue' = submod_list(extra_opts)
    /\ saved_dirs' = Append(saved_dirs, cwd)
    /\ cwd' = Join(cwd, get(cmd_opts, k_source_prefix).s)
    /\ pc' = "git"
    /\ UNCHANGED <<inputs, opt_vars, build_exists, frames, log, failed_at, ended, exit_msg>>

\* main: no dependency resolution
SkipSubmodules ==
    /\ pc = "decoded"
    /\ ~(os_type = "Linux" /\ Truthy(get(cmd_opts, k_git)))
    /\ pc' = "build"
    /\ UNCHANGED <<inputs, opt_vars, git_vars, cwd, build_exists, log, failed_at, exit_msg>>

\* for submod in submod_list: self.update_submodule(submod)
UpdateNext ==
    /\ pc = "git" /\ frames = <<>> /\ queue # <<>>
    /\ frames' = <<Frame(Head(queue))>>
    /\ queue' = Tail(queue)
    /\ UNCHANGED <<inputs, opt_vars, pc, cwd, build_exists, log, saved_dirs, failed_at,
                   ended, exit_msg>>

\* the end of check_submodules: ch_dir(root) is left
SubmodulesDone ==
    /\ pc = "git" /\ frames = <<>> /\ queue = <<>>
    /\ cwd' = saved_dirs[Len(saved_dirs)]
    /\ saved_dirs' = SubSeq(saved_dirs, 1, Len(saved_dirs) - 1)
    /\ pc' = "build"
    /\ UNCHANGED <<inputs, opt_vars, build_exists, queue, frames, log, failed_at, ended,
                   exit_msg>>

\* exec_cmd('git submodule init ' + submod)
SubmoduleInit ==
    /\ pc = "git" /\ frames # <<>> /\ frames[Len(frames)].phase = "init"
    /\ Invoke("git submodule init", frames[Len(frames)].submod)
    /\ \/ /\ SetPhase("update")
          /\ UNCHANGED <<pc, saved_dirs, failed_at, ended, exit_msg>>
       \/ SubmoduleExit(cwd)
    /\ UNCHANGED <<inputs, opt_vars, cwd, build_exists, queue>>

\* exec_cmd('git submodule update ' + submod)
SubmoduleUpdate ==
    /\ pc = "git" /\ frames # <<>> /\ frames[Len(frames)].phase = "update"
    /\ Invoke("git submodule update", frames[Len(frames)].submod)
    /\ \/ /\ SetPhase("enter")
          /\ UNCHANGED <<pc, saved_dirs, failed_at, ended, exit_msg>>
       \/ SubmoduleExit(cwd)
    /\ UNCHANGED <<inputs, opt_vars, cwd, build_exists, queue>>

\* with ch_dir(submod): exec_cmd('git submodule init')
NestedInit ==
    /\ pc = "git" /\ frames # <<>> /\ frames[Len(frames)].phase = "enter"
    /\ cwd' = Join(cwd, frames[Len(frames)].submod)
    /\ log' = Append(log, [cmd |-> "git submodule init", path |-> <<>>, dir |-> cwd'])
    /\ \/ /\ SetPhase("list")
          /\ saved_dirs' = Append(saved_dirs, cwd)
          /\ UNCHANGED <<pc, failed_at, ended, exit_msg>>
       \/ SubmoduleExit(cwd')
    /\ UNCHANGED <<inputs, opt_vars, build_exists, queue>>

\* Popen(['git', 'submodule']) and p.stdout.readlines(): the exit status of
\* the listing is not looked at, a listing that fails prints no line
NestedList ==
    /\ pc = "git" /\ frames # <<>> /\ frames[Len(frames)].phase = "list"
    /\ Invoke("git submodule", <<>>)
    /\ \/ /\ frames' = [frames EXCEPT ![Len(frames)].phase = "children",
                                      ![Len(frames)].children = nested_submodules(cwd)]
          /\ UNCHANGED failed_at
       \/ /\ frames' = [frames EXCEPT ![Len(frames)].phase = "children"]
          /\ failed_at' = IF failed_at = 0 THEN Len(log) + 1 ELSE failed_at
    /\ UNCHANGED <<inputs, opt_vars, pc, cwd, build_exists, queue, saved_dirs, ended,
                   exit_msg>>

\* for l in p.stdout.readlines(): self.update_submodule(tok[1])
NestedNext ==
    /\ pc = "git" /\ frames # <<>>
    /\ LET f == frames[Len(frames)]
       IN  /\ f.phase = "children" /\ f.children # <<>>
           /\ frames' = Append([frames EXCEPT ![Len(frames)].children = Tail(f.children)],
                               Frame(Head(f.children)))
    /\ UNCHANGED <<inputs, opt_vars, pc, cwd, build_exists, queue, log, saved_dirs,
                   failed_at, ended, exit_msg>>

\* the end of update_submodule: ch_dir(submod) is left, the call returns
SubmoduleReturn ==
    /\ pc = "git" /\ frames # <<>>
    /\ LET f == frames[Len(frames)]
       IN  /\ f.phase = "children" /\ f.children = <<>>
           /\ cwd' = saved_dirs[Len(saved_dirs)]
           /\ saved_dirs' = SubSeq(saved_dirs, 1, Len(saved_dirs) - 1)
           /\ ended' = Append(ended, [submod |-> f.submod, ok |-> TRUE,
                                      before |-> f.before, after |-> cwd'])
           /\ frames' = SubSeq(frames, 1, Len(frames) - 1)
    /\ UNCHANGED <<inputs, opt_vars, pc, build_exists, queue, log, failed_at, exit_msg>>

\* except Exception in main: sys.exit('Problem building/installing Lima')
BuildExit(exc) ==
    /\ pc' = "exit"
    /\ exit_msg' = [kind |-> "build", submod |-> <<>>, exc |-> exc]

\* build_install_lima: the build directory is made and entered
EnterBuildDir ==
    /\ pc = "build"
    /\ build_exists' = TRUE
    /\ cwd' = Join(cwd, get(cmd_opts, k_build_prefix).s)
    /\ pc' = "configure"
    /\ UNCHANGED <<inputs, opt_vars, git_vars, log, failed_at, exit_msg>>

\* build_install_lima: get_configure_options (which reads the config file)
\* and exec_cmd of the configure command
Configure ==
    /\ pc = "configure"
    /\ LET c == read_config(lines)
           o == IF c.exc # "" THEN [NotConfigured EXCEPT !.done = TRUE, !.exc = c.exc]
                ELSE get_configure_options(cmd_opts, extra_opts, c.opts)
       IN  /\ config_opts' = c.opts
           /\ configure' = o
           /\ IF o.exc # ""
              THEN BuildExit(o.exc) /\ UNCHANGED <<log, failed_at>>
              ELSE /\ Invoke("cmake configure", <<>>)
                   /\ \/ pc' = "make" /\ UNCHANGED <<exit_msg, failed_at>>
                      \/ /\ BuildExit("Exception")
                         /\ failed_at' = IF failed_at = 0 THEN Len(log) + 1 ELSE failed_at
    /\ UNCHANGED <<inputs, cmd_opts, extra_opts, install_required, git_vars, cwd,
                   build_exists>>

\* build_install_lima: exec_cmd of the build command
Build ==
    /\ pc = "make"
    /\ Invoke("cmake build", <<>>)
    /\ \/ pc' = "built" /\ UNCHANGED <<exit_msg, failed_at>>
       \/ /\ BuildExit("Exception")
          /\ failed_at' = IF failed_at = 0 THEN Len(log) + 1 ELSE failed_at
    /\ UNCHANGED <<inputs, opt_vars, git_vars, cwd, build_exists>>

\* build_install_lima: is_install_required and exec_cmd of the install command
Install ==
    /\ pc = "built"
    /\ install_required' = is_install_required(cmd_opts, extra_opts)
    /\ IF ~Truthy(install_required')
       THEN pc' = "done" /\ UNCHANGED <<log, exit_msg, failed_at>>
       ELSE /\ Invoke("cmake install", <<>>)
            /\ \/ pc' = "done" /\ UNCHANGED <<exit_msg, failed_at>>
               \/ /\ BuildExit("Exception")
                  /\ failed_at' = IF failed_at = 0 THEN Len(log) + 1 ELSE failed_at
    /\ UNCHANGED <<inputs, cmd_opts, extra_opts, config_opts, configure, git_vars, cwd,
                   build_exists>>

NextRun ==
    \/ NewConfig
    \/ CheckSubmodules
    \/ SkipSubmodules
    \/ UpdateNext
    \/ SubmoduleInit
    \/ SubmoduleUpdate
    \/ NestedInit
    \/ NestedList
    \/ NestedNext
    \/ SubmoduleReturn
    \/ SubmodulesDone
    \/ EnterBuildDir
    \/ Configure
    \/ Build
    \/ Install

SpecRun == InitRun /\ [][NextRun]_vars

----------------------------------------------------------------------------
(* Properties of the option specification *)

\* the command-line options get_configure_options goes through
CmdOptions == get_cmd_options(cmd_opts, extra_opts)

EndsWith(s, suffix) ==
    Len(suffix) <= Len(s) /\ SubSeq(s, Len(s) - Len(suffix) + 1, Len(s)) = suffix

\* the command-line option name equals opt, or opt ends with '-' and name
NameMatches(opt, name) == name = opt \/ EndsWith(opt, <<"-">> \o name)

\* the indices of the command-line options that match opt
Matching(opt) == {j \in 1..Len(CmdOptions) : NameMatches(opt, CmdOptions[j].k)}

Resolved == configure.resolved

\* C1: every config entry that some command-line option matches (same name,
\* or the entry's name ends with '-' and the option's name) is resolved with
\* the value of a matching command-line option, and the config-file value is
\* used only for an entry that no command-line option matches.
C1_CommandLinePrecedence ==
    \A i \in 1..Len(Resolved) :
        LET e == Resolved[i]
        IN  IF Matching(e.opt) # {}
            THEN e.src = "cmd" /\ \E j \in Matching(e.opt) : e.val = CmdOptions[j].v
            ELSE e.src = "config" /\ e.val = e.cfg_val

\* C9: a config entry for which a command-line option of exactly its name
\* exists is resolved with that option's value, also when another
\* command-line option matches it by the hyphen rule.
C9_ExactMatchFirst ==
    \A i \in 1..Len(Resolved) :
        LET e == Resolved[i]
        IN  DictHas(CmdOptions, e.opt) =>
                e.src = "cmd" /\ e.val = DictGet(CmdOptions, e.opt)

\* opt == name + '-' + suffix for a non-empty suffix
IsHyphenPrefix(name, opt) ==
    /\ Len(opt) > Len(name) + 1
    /\ SubSeq(opt, 1, Len(name) + 1) = name \o <<"-">>

\* C10: a config entry whose name is a command-line option's name followed
\* by a hyphen and a suffix, and that no other command-line option matches,
\* is resolved (the resolution completes) with that option's value.
C10_PrefixOverride ==
    pc = "configured" =>
        \A i \in 1..Len(config_opts) : \A j \in 1..Len(CmdOptions) :
            LET opt == config_opts[i].k
                name == CmdOptions[j].k
            IN  (/\ IsHyphenPrefix(name, opt)
                 /\ \A k \in 1..Len(CmdOptions) :
                        k # j => /\ ~NameMatches(opt, CmdOptions[k].k)
                                 /\ ~IsHyphenPrefix(CmdOptions[k].k, opt))
                => /\ configure.exc = ""
                   /\ i <= Len(Resolved)
                   /\ Resolved[i].src = "cmd"
                   /\ Resolved[i].val = CmdOptions[j].v

\* C2 as stated: is_install_required() is true iff the command-line
\* 'install' option is truthy or a non-empty 'install-prefix' was supplied
\* on the command line.
C2_InstallOrPrefix ==
    pc = "asked" =>
        (Truthy(install_required)
            <=> \/ DictHas(CmdOptions, k_install) /\ Truthy(DictGet(CmdOptions, k_install))
                \/ /\ DictHas(CmdOptions, k_install_prefix)
                   /\ DictGet(CmdOptions, k_install_prefix) # S(<<>>))

\* C2 amended: is_install_required() is true iff the command-line options
\* (recognized overrides and extra tokens) hold 'install' with a truthy
\* value, or hold no 'install' at all and hold a non-empty 'install-prefix':
\* an 'install' given on the command line decides alone.
C2_ExplicitInstallDecides ==
    pc = "asked" =>
        (Truthy(install_required)
            <=> IF DictHas(CmdOptions, k_install)
                THEN Truthy(DictGet(CmdOptions, k_install))
                ELSE /\ DictHas(CmdOptions, k_install_prefix)
                     /\ DictGet(CmdOptions, k_install_prefix) # S(<<>>))

\* --no-install together with a non-empty --install-prefix: no install
C2_Witness ==
    /\ pc = "asked"
    /\ DictHas(cmd_opts, k_install) /\ DictGet(cmd_opts, k_install) = B(FALSE)
    /\ DictHas(cmd_opts, k_install_prefix) /\ Truthy(DictGet(cmd_opts, k_install_prefix))
    /\ ~Truthy(install_required)

\* the lines of the config file that hold an entry
IsEntryLine(l) == Strip(l) # <<>> /\ Strip(l)[1] # "#"
EntryLines == SelectSeq(lines, IsEntryLine)

\* the text after the '=' of an entry line
RawValue(l) == Drop(Strip(l), Find(Strip(l), <<"=">>))

\* the value texts the claim calls inactive: digits that parse to 0, the
\* empty text, and 'no' in any case
InactiveText(raw) ==
    \/ raw = <<>>
    \/ IsDigit(raw) /\ \A i \in 1..Len(raw) : raw[i] = "0"
    \/ Len(raw) = 2 /\ raw[1] \in {"n", "N"} /\ raw[2] \in {"o", "O"}

----------------------------------------------------------------------------
(* Properties of the run specification *)

\* dependency resolution was requested and has started
GitStarted == pc \notin {"start", "decoded"} /\ os_type = "Linux" /\ Truthy(get(cmd_opts, k_git))

\* the names check_submodules goes through
Requested == add_basic(extra_opts, 1)

\* a requested name that is not excluded and, renamed, names no directory
\* under 'third-party', under 'camera' or under the source root
Unresolved(name) ==
    LET s == IF DictHas(submodule_map, name) THEN DictGet(submodule_map, name) ELSE name
    IN  /\ name \notin not_submodules
        /\ Join(<<"t", "h", "i", "r", "d", "-", "p", "a", "r", "t", "y">>, s) \notin source_tree
        /\ Join(<<"c", "a", "m", "e", "r", "a">>, s) \notin source_tree
        /\ s \notin source_tree

Resolvable(name) == name \notin not_submodules /\ ~Unresolved(name)

IsFetch(e) == e.cmd \in {"git submodule init", "git submodule update"} /\ e.path # <<>>

IsGit(e) == e.cmd \in {"git submodule init", "git submodule update", "git submodule"}

\* C3 as stated: a requested name that resolves to no directory makes
\* check_submodules abort the run with an error before anything is fetched.
C3_UnresolvedAborts ==
    (GitStarted /\ \E i \in 1..Len(Requested) : Unresolved(Requested[i]))
        => pc = "exit" /\ exit_msg.kind = "submodule" /\ log = <<>>

\* C3 amended: a requested name that resolves to no directory is skipped
\* without an error: nothing is fetched for it, the names after it are
\* resolved all the same (the update loop starts with every resolvable
\* name's path, in the order requested), and the run is only ever ended
\* during dependency resolution by an invocation that failed.
C3_UnresolvedSkipped ==
    GitStarted =>
        /\ \A i \in 1..Len(Requested) : \A j \in 1..Len(log) :
               (Unresolved(Requested[i]) /\ IsFetch(log[j])) =>
                   /\ log[j].path # Requested[i]
                   /\ log[j].dir = start_dir => log[j].path # submod_path(Requested[i])
        /\ (pc = "git" /\ log = <<>> /\ frames = <<>>) =>
               LET R == SelectSeq(Requested, Resolvable)
               IN  queue = [i \in 1..Len(R) |-> submod_path(R[i])]
        /\ (pc = "exit" /\ exit_msg.kind = "submodule") =>
               log # <<>> /\ failed_at # 0 /\ failed_at <= Len(log)

\* a module requested after a name that resolves to no directory has been
\* initialized and updated
C3_Witness ==
    /\ GitStarted
    /\ \E i \in 1..Len(Requested) : \E k \in 1..Len(log) :
           /\ Unresolved(Requested[i])
           /\ log[k].cmd = "git submodule update"
           /\ \E j \in (i + 1)..Len(Requested) : log[k].path = submod_path(Requested[j])

\* C4: the first failure of a git invocation during dependency resolution
\* ends the run at once, with a message naming the module: the failed
\* invocation is the last one issued.
C4_GitFailureEndsRun ==
    (failed_at # 0 /\ IsGit(log[failed_at])) =>
        /\ pc = "exit"
        /\ exit_msg.kind = "submodule" /\ exit_msg.submod # <<>>
        /\ Len(log) = failed_at

\* a non-blank, non-comment line without '='
Malformed(l) == IsEntryLine(l) /\ Find(Strip(l), <<"=">>) = 0

MalformedFile == \E i \in 1..Len(lines) : Malformed(lines[i])

build_dir == Join(start_dir, <<"b", "u", "i", "l", "d">>)

\* C5 as stated: with a malformed config file no external tool is ever
\* invoked and the build directory is neither created nor entered.
C5_ParseErrorBeforeAnything ==
    MalformedFile => log = <<>> /\ ~build_exists /\ cwd # build_dir

IsCMake(e) == e.cmd \in {"cmake configure", "cmake build", "cmake install"}

\* C5 amended: a malformed config file ends the run when the configure
\* options are computed: no cmake invocation (configure, build, install) is
\* ever issued, and when the parse error ends the run the build directory
\* has been created and entered and, if requested, dependency resolution has
\* been done, its git invocations issued.
C5_ParseErrorAtConfigure ==
    MalformedFile =>
        /\ \A j \in 1..Len(log) : ~IsCMake(log[j])
        /\ pc \notin {"make", "built", "done"}
        /\ pc = "configure" => build_exists /\ cwd = build_dir
        /\ (pc = "exit" /\ exit_msg.kind = "build") =>
               /\ exit_msg.exc = "ValueError"
               /\ build_exists /\ cwd = build_dir
               /\ GitStarted => /\ queue = <<>> /\ frames = <<>>
                                /\ \E j \in 1..Len(log) : IsFetch(log[j])

\* the parse error ended a run that had fetched submodules
C5_Witness ==
    /\ MalformedFile
    /\ pc = "exit" /\ exit_msg.exc = "ValueError"
    /\ build_exists /\ cwd = build_dir
    /\ \E j \in 1..Len(log) : log[j].cmd = "git submodule update"

\* C7: no module path is fetched twice in one run, and every init of a path
\* that is followed by an invocation is followed by the update of that path.
C7_NoPathTwice ==
    /\ \A i \in 1..Len(log) : \A j \in 1..Len(log) :
           (/\ i < j
            /\ log[i].cmd = "git submodule init" /\ log[i].path # <<>>
            /\ log[j].cmd = "git submodule init")
               => ~(log[j].path = log[i].path /\ log[j].dir = log[i].dir)
    /\ \A i \in 1..(Len(log) - 1) :
           (log[i].cmd = "git submodule init" /\ log[i].path # <<>>)
               => /\ log[i + 1].cmd = "git submodule update"
                  /\ log[i + 1].path = log[i].path
                  /\ log[i + 1].dir = log[i].dir

\* C8: whenever the processing of a module ends, by return or by failure,
\* the working directory is the one the processing started in.
C8_DirectoryRestored ==
    \A i \in 1..Len(ended) : ended[i].after = ended[i].before


====
